---- MODULE Spec2Model ----
(***************************************************************************)
(* A model of solaredge/solaredge.py: the Solaredge client class (one      *)
(* method per endpoint of the monitoring API, three of them wrapped in     *)
(* functools.lru_cache), the static date formatter _fmt_date and the       *)
(* module-level urljoin.                                                   *)
(*                                                                         *)
(* Python text is a sequence of atoms: the atom "/" is one slash, any      *)
(* other atom is a slash-free piece of text (one character or a chunk).    *)
(* Python values are tagged records (PyNone, PyInt, PyStr, PyList, PyObj). *)
(***************************************************************************)
EXTENDS Integers, Sequences, FiniteSets, TLC

VARIABLES
    parts,      \* urljoin: the *parts argument (a sequence of Python values)
    part_list,  \* urljoin: the local list part_list
    url,        \* urljoin: the returned text, UrlPending before the return
    date_obj,   \* _fmt_date: the date_obj argument
    tz,         \* _fmt_date: the tz argument
    fmt_ret,    \* _fmt_date: its outcome, FmtPending before the call
    clients,    \* the Solaredge instances that have been constructed
    cache,      \* the lru_cache of each wrapped method: entries, least recently used first
    call,       \* the latest invocation of a client method: its name and arguments
    stub,       \* what the transport was set to answer during that invocation
    reqs,       \* the GET requests that invocation issued, in order
    ret,        \* its outcome: the value returned or the exception raised
    evicted,    \* the cache entries that invocation dropped, as <<method, key>> pairs
    ncalls,     \* the number of invocations so far
    under_test  \* the wrapped method a cache session exercises

urlVars == <<parts, part_list, url>>
fmtVars == <<date_obj, tz, fmt_ret>>
clientVars == <<clients, cache, call, stub, reqs, ret, evicted, ncalls, under_test>>
vars == <<parts, part_list, url, date_obj, tz, fmt_ret, clients, cache, call, stub, reqs, ret,
          evicted, ncalls, under_test>>

-----------------------------------------------------------------------------
(* Python values *)

PyNone == [t |-> "none", i |-> 0, s |-> <<>>, l |-> <<>>]
PyInt(n) == [t |-> "int", i |-> n, s |-> <<>>, l |-> <<>>]
PyStr(text) == [t |-> "str", i |-> 0, s |-> text, l |-> <<>>]
PyList(items) == [t |-> "list", i |-> 0, s |-> <<>>, l |-> items]
PyObj(id) == [t |-> "obj", i |-> 0, s |-> <<id>>, l |-> <<>>]

\* bool(v) as the if-statements of the client evaluate it
Truthy(v) ==
    CASE v.t = "none" -> FALSE
      [] v.t = "int" -> v.i # 0
      [] v.t = "str" -> v.s # <<>>
      [] v.t = "list" -> v.l # <<>>
      [] OTHER -> TRUE

Digit(d) ==
    CASE d = 0 -> "0" [] d = 1 -> "1" [] d = 2 -> "2" [] d = 3 -> "3"
      [] d = 4 -> "4" [] d = 5 -> "5" [] d = 6 -> "6" [] d = 7 -> "7"
      [] d = 8 -> "8" [] d = 9 -> "9"

Digits == {"0", "1", "2", "3", "4", "5", "6", "7", "8", "9"}

DigitVal(c) == CHOOSE d \in 0..9 : Digit(d) = c

\* str(n) of a non-negative int
RECURSIVE ItoA(_)
ItoA(n) == IF n < 10 THEN <<Digit(n)>> ELSE ItoA(n \div 10) \o <<Digit(n % 10)>>

\* str(part), line 293
Str(v) ==
    CASE v.t = "str" -> v.s
      [] v.t = "int" -> ItoA(v.i)
      [] v.t = "none" -> <<"None">>
      [] OTHER -> <<"<object>">>

-----------------------------------------------------------------------------
(* urljoin, lines 277-301 *)

\* p.endswith('//')
EndsWithDoubleSlash(p) ==
    Len(p) >= 2 /\ p[Len(p)] = "/" /\ p[Len(p) - 1] = "/"

RECURSIVE LStrip(_)
LStrip(p) == IF p # <<>> /\ Head(p) = "/" THEN LStrip(Tail(p)) ELSE p

RECURSIVE RStrip(_)
RStrip(p) ==
    IF p # <<>> /\ p[Len(p)] = "/" THEN RStrip(SubSeq(p, 1, Len(p) - 1)) ELSE p

\* p.strip('/')
Strip(p) == RStrip(LStrip(p))

\* p[0:-1]
DropLast(p) == SubSeq(p, 1, Len(p) - 1)

\* a segment that ends in '//' loses both of its last characters
MutantProcessPart(part) ==
    LET p == Str(part)
    IN IF EndsWithDoubleSlash(p) THEN SubSeq(p, 1, Len(p) - 2) ELSE Strip(p)

\* the body of the for loop, lines 293-297
ProcessPart(part) ==
    LET p == Str(part)
    IN IF EndsWithDoubleSlash(p) THEN DropLast(p) ELSE Strip(p)

\* '/'.join(part_list)
RECURSIVE JoinSlash(_)
JoinSlash(list) ==
    IF list = <<>> THEN <<>>
    ELSE IF Len(list) = 1 THEN list[1]
    ELSE list[1] \o <<"/">> \o JoinSlash(Tail(list))

\* urljoin as one expression, the way the client methods call it
urljoin(ps) == JoinSlash([k \in 1..Len(ps) |-> ProcessPart(ps[k])])

BASEURL == <<"https:", "/", "/", "monitoringapi.solaredge.com">>

-----------------------------------------------------------------------------
(* Dates and times. A moment is a day number and an hour of that day; a    *)
(* zone is its offset from UTC in hours. The target format renders a       *)
(* moment as the day's digits, a blank and the two digits of the hour      *)
(* (standing for '%Y-%m-%d %H:%M:%S').                                     *)

NoOffset == [known |-> FALSE, hours |-> 0]
Offset(h) == [known |-> TRUE, hours |-> h]

\* dt.datetime(day, hour, tzinfo=off), dt.date(day)
DateTime(day, hour, off) == [t |-> "datetime", day |-> day, hour |-> hour, off |-> off, text |-> <<>>]
Date(day) == [t |-> "date", day |-> day, hour |-> 0, off |-> NoOffset, text |-> <<>>]
DateText(text) == [t |-> "str", day |-> 0, hour |-> 0, off |-> NoOffset, text |-> text]

\* the tz argument: None, a zone name (text), or a tzinfo object
TzNone == [t |-> "none", name |-> <<>>, hours |-> 0]
TzName(name) == [t |-> "str", name |-> name, hours |-> 0]
TzInfo(h) == [t |-> "tzinfo", name |-> <<>>, hours |-> h]

TwoDigits(n) == <<Digit(n \div 10), Digit(n % 10)>>

\* date_obj.strftime(fmt)
Strftime(d) == ItoA(d.day) \o <<" ">> \o TwoDigits(d.hour)

IsDigits(text) == text # <<>> /\ \A k \in 1..Len(text) : text[k] \in Digits

RECURSIVE AtoI(_)
AtoI(text) ==
    IF text = <<>> THEN 0 ELSE 10 * AtoI(SubSeq(text, 1, Len(text) - 1)) + DigitVal(text[Len(text)])

\* the position of the first atom c of text, 0 when there is none
FirstIndex(text, c) ==
    IF \E k \in 1..Len(text) : text[k] = c
    THEN CHOOSE k \in 1..Len(text) : text[k] = c /\ \A j \in 1..(k - 1) : text[j] # c
    ELSE 0

\* text is <digits> sep <two digits of an hour below 24>
HasShape(text, sep) ==
    LET k == FirstIndex(text, sep)
    IN /\ k > 1
       /\ Len(text) = k + 2
       /\ IsDigits(SubSeq(text, 1, k - 1))
       /\ IsDigits(SubSeq(text, k + 1, k + 2))
       /\ AtoI(SubSeq(text, k + 1, k + 2)) < 24

\* dt.datetime.strptime(date_obj, fmt) does not raise, line 264
StrptimeOk(text) == HasShape(text, " ")

\* the offset suffix of a generic text: "+" and one digit, or "Z"
SuffixOk(suffix) ==
    \/ suffix = <<>>
    \/ suffix = <<"Z">>
    \/ Len(suffix) = 2 /\ suffix[1] = "+" /\ suffix[2] \in Digits

SuffixOffset(suffix) ==
    IF suffix = <<>> THEN NoOffset
    ELSE IF suffix = <<"Z">> THEN Offset(0)
    ELSE Offset(DigitVal(suffix[2]))

\* dateutil.parser.parse(date_obj), line 266, accepts a day alone (midnight of
\* that day), or <digits> 'T' or blank <hh> and then an optional offset;
\* anything else raises
ParseOk(text) ==
    \/ IsDigits(text)
    \/ \E sep \in {"T", " "} :
        LET k == FirstIndex(text, sep)
        IN /\ k > 1
           /\ Len(text) >= k + 2
           /\ HasShape(SubSeq(text, 1, k + 2), sep)
           /\ SuffixOk(SubSeq(text, k + 3, Len(text)))

Parse(text) ==
    IF IsDigits(text) THEN DateTime(AtoI(text), 0, NoOffset)
    ELSE LET sep == IF FirstIndex(text, "T") > 0 THEN "T" ELSE " "
             k == FirstIndex(text, sep)
         IN DateTime(AtoI(SubSeq(text, 1, k - 1)), AtoI(SubSeq(text, k + 1, k + 2)),
                     SuffixOffset(SubSeq(text, k + 3, Len(text))))

\* hasattr(date_obj, 'tzinfo') and date_obj.tzinfo is not None, line 269
IsAware(d) == d.t = "datetime" /\ d.off.known

\* date_obj.astimezone(tz) for an aware date_obj and a tzinfo tz
AsTimezone(d, hours) ==
    LET total == d.day * 24 + d.hour - d.off.hours + hours
    IN DateTime(total \div 24, total % 24, Offset(hours))

FmtOk(text) == [kind |-> "ok", text |-> text]
FmtRaise(kind) == [kind |-> kind, text |-> <<>>]
FmtPending == [kind |-> "pending", text |-> <<>>]

\* lines 269-274, for a structured value d
FmtStructured(d, zone) ==
    IF IsAware(d)
    THEN IF zone.t = "none" THEN FmtRaise("ValueError")
         ELSE IF zone.t # "tzinfo" THEN FmtRaise("TypeError")
         ELSE FmtOk(Strftime(AsTimezone(d, zone.hours)))
    ELSE FmtOk(Strftime(d))

\* Solaredge._fmt_date, lines 248-274
fmt_date(obj, zone) ==
    IF obj.t = "str"
    THEN IF StrptimeOk(obj.text) THEN FmtOk(obj.text)
         ELSE IF ParseOk(obj.text) THEN FmtStructured(Parse(obj.text), zone)
         ELSE FmtRaise("ParserError")
    ELSE FmtStructured(obj, zone)

-----------------------------------------------------------------------------
(* The transport: requests.get, raise_for_status and json *)

\* A decoded JSON body: the fields the client reads (details.location.timeZone,
\* dataPeriod.startDate and endDate) and a number telling the documents apart.
Json(doc, zone, startDate, endDate) ==
    [doc |-> doc, timeZone |-> zone, startDate |-> startDate, endDate |-> endDate]

NoJson == Json(0, PyNone, <<>>, <<>>)

Bodies ==
    { Json(1, PyStr(<<"Europe/Brussels">>), <<"5">>, <<"6">>),
      Json(2, PyNone, <<"5", " ", "2", "3">>, <<"6", "T", "0", "1", "Z">>) }

Response(status, body) == [status |-> status, body |-> body]

\* what the transport answers to one GET
Responses == {Response(200, b) : b \in Bodies} \cup {Response(404, NoJson)}

\* the outcome of an invocation: a returned value or a raised exception
Ok(json) == [kind |-> "ok", type |-> "json", json |-> json, val |-> PyNone, dts |-> <<>>]
OkVal(v) == [kind |-> "ok", type |-> "value", json |-> NoJson, val |-> v, dts |-> <<>>]
OkDates(dts) == [kind |-> "ok", type |-> "datetimes", json |-> NoJson, val |-> PyNone, dts |-> dts]
OkFrame(json, zone) == [kind |-> "ok", type |-> "dataframe", json |-> json, val |-> zone, dts |-> <<>>]
Raise(kind) == [kind |-> kind, type |-> "none", json |-> NoJson, val |-> PyNone, dts |-> <<>>]
Pending == [kind |-> "pending", type |-> "none", json |-> NoJson, val |-> PyNone, dts |-> <<>>]

\* The running state of an invocation: the caches (one per wrapped method, held
\* by the class), the requests issued so far and the outcome.
Eval(c, rq, out) == [cache |-> c, reqs |-> rq, out |-> out]

Failed(r) == r.out.kind # "ok"

\* r.raise_for_status() does nothing
StatusOk(resp) == resp.status < 400

\* a body is returned whatever the status
MutantHttpGet(st, u, params, resps) ==
    LET resp == resps[Len(st.reqs) + 1]
    IN Eval(st.cache, Append(st.reqs, [url |-> u, params |-> params, status |-> resp.status]),
            Ok(resp.body))

\* r = requests.get(url, params); r.raise_for_status(); return r.json()
\* The k-th GET of an invocation is answered by resps[k].
HttpGet(st, u, params, resps) ==
    LET resp == resps[Len(st.reqs) + 1]
    IN Eval(st.cache, Append(st.reqs, [url |-> u, params |-> params, status |-> resp.status]),
            IF StatusOk(resp) THEN Ok(resp.body) ELSE Raise("HTTPError"))

-----------------------------------------------------------------------------
(* functools.lru_cache(maxsize=128, typed=False), lines 31, 62 and 83 *)

\* maxsize: 128 in the code, scaled down so that a cache can fill up
maxsize == 2

WrappedMethods == {"get_list", "get_details", "get_data_period"}

\* the keyword arguments are left out of the key
MutantMakeKeyNoKwds(args, kwds) == [args |-> args, kwds |-> <<>>]

\* the instance is left out of the key
MutantMakeKeyNoSelf(args, kwds) == [args |-> Tail(args), kwds |-> kwds]

\* functools._make_key: the positional arguments (self first), and the keyword
\* arguments in the order of the call; defaults are not filled in
make_key(args, kwds) == [args |-> args, kwds |-> kwds]

\* the position of key in an ordered cache (least recently used first), or 0
CacheIndex(entries, key) ==
    IF \E k \in 1..Len(entries) : entries[k].key = key
    THEN CHOOSE k \in 1..Len(entries) : entries[k].key = key
    ELSE 0

Remove(entries, k) == SubSeq(entries, 1, k - 1) \o SubSeq(entries, k + 1, Len(entries))

\* a hit makes the entry the most recently used
Touch(entries, k) == Append(Remove(entries, k), entries[k])

\* a full cache drops its most recently used entry
MutantStore(entries, key, value) ==
    IF Len(entries) >= maxsize
    THEN Append(SubSeq(entries, 1, Len(entries) - 1), [key |-> key, value |-> value])
    ELSE Append(entries, [key |-> key, value |-> value])

\* a miss stores the result, dropping the least recently used entry of a full cache
Store(entries, key, value) ==
    IF Len(entries) >= maxsize
    THEN Append(Tail(entries), [key |-> key, value |-> value])
    ELSE Append(entries, [key |-> key, value |-> value])

\* a miss is not stored
MutantLruCall(m, st, key, miss) ==
    LET k == CacheIndex(st.cache[m], key)
    IN IF k > 0
       THEN Eval([st.cache EXCEPT ![m] = Touch(@, k)], st.reqs, Ok(st.cache[m][k].value))
       ELSE miss

\* the wrapper: m the wrapped method, st the state before the call, miss the
\* evaluation of the wrapped function from st (used on a miss only)
LruCall(m, st, key, miss) ==
    LET k == CacheIndex(st.cache[m], key)
    IN IF k > 0
       THEN Eval([st.cache EXCEPT ![m] = Touch(@, k)], st.reqs, Ok(st.cache[m][k].value))
       ELSE IF Failed(miss) THEN miss
       ELSE Eval([miss.cache EXCEPT ![m] = Store(@, key, miss.out.json)], miss.reqs, miss.out)

-----------------------------------------------------------------------------
(* The Solaredge class, lines 15-246 *)

Clients == {"A", "B"}

\* self.token, set by __init__ (line 29) and never assigned again
token(self) == PyStr(<<"token-", self>>)

Kw(name, value) == [name |-> name, value |-> value]

\* the value a call binds to a parameter: positional (position pos after self),
\* by keyword, or the default
Bound(args, kwds, pos, name, default) ==
    IF Len(args) > pos THEN args[pos + 1]
    ELSE IF \E k \in 1..Len(kwds) : kwds[k].name = name
    THEN kwds[CHOOSE k \in 1..Len(kwds) : kwds[k].name = name].value
    ELSE default

T(chunk) == PyStr(<<chunk>>)

SiteUrl(site_id, leaf) == urljoin(<<PyStr(BASEURL), T("site"), site_id, T(leaf)>>)

\* params[name] = value when value is truthy (lines 52-56, 175-176, 191-192)
WithOptional(params, name, value) ==
    IF Truthy(value) THEN (name :> value) @@ params ELSE params

\* the wrapped function of get_list, lines 42-60
get_list_wrapped(st, self, size, start_index, search_text, sort_property, sort_order, status, resps) ==
    LET base == [api_key |-> token(self), size |-> size, startIndex |-> start_index,
                 sortOrder |-> sort_order, status |-> status]
        p1 == WithOptional(base, "searchText", search_text)
        p2 == WithOptional(p1, "sortProperty", sort_property)
    IN HttpGet(st, urljoin(<<PyStr(BASEURL), T("sites"), T("list")>>), p2, resps)

\* get_list, lines 31-60: args are the positional arguments (self first)
get_list(st, args, kwds, resps) ==
    LruCall("get_list", st, make_key(args, kwds),
            get_list_wrapped(st, args[1].s[1],
                Bound(args, kwds, 1, "size", PyInt(100)),
                Bound(args, kwds, 2, "start_index", PyInt(0)),
                Bound(args, kwds, 3, "search_text", PyStr(<<>>)),
                Bound(args, kwds, 4, "sort_property", PyStr(<<>>)),
                Bound(args, kwds, 5, "sort_order", T("ASC")),
                Bound(args, kwds, 6, "status", T("Active,Pending")),
                resps))

\* the shape shared by the endpoints that send the token alone
SiteGet(st, self, site_id, leaf, resps) ==
    HttpGet(st, SiteUrl(site_id, leaf), [api_key |-> token(self)], resps)

\* get_details, lines 62-81
get_details(st, args, kwds, resps) ==
    LruCall("get_details", st, make_key(args, kwds),
            SiteGet(st, args[1].s[1], Bound(args, kwds, 1, "site_id", PyNone), "details", resps))

\* get_data_period, lines 83-103
get_data_period(st, args, kwds, resps) ==
    LruCall("get_data_period", st, make_key(args, kwds),
            SiteGet(st, args[1].s[1], Bound(args, kwds, 1, "site_id", PyNone), "dataPeriod", resps))

\* get_timezone, lines 243-246
get_timezone(st, self, site_id, resps) ==
    LET r == get_details(st, <<PyObj(self)>>, <<Kw("site_id", site_id)>>, resps)
    IN IF Failed(r) THEN r ELSE Eval(r.cache, r.reqs, OkVal(r.out.json.timeZone))

\* the hours east of UTC of a named zone (pytz.timezone(name)), daylight saving aside
ZoneHours(name) == IF name = <<"Europe/Brussels">> THEN 1 ELSE 0

\* start.astimezone(tz), line 120: a naive value is taken as system local time,
\* which is UTC here
ToZone(d, hours) ==
    AsTimezone(IF IsAware(d) THEN d ELSE DateTime(d.day, d.hour, Offset(0)), hours)

\* get_data_period_parsed, lines 105-121
get_data_period_parsed(st, self, site_id, resps) ==
    LET r1 == get_data_period(st, <<PyObj(self)>>, <<Kw("site_id", site_id)>>, resps)
        r2 == get_timezone(Eval(r1.cache, r1.reqs, Pending), self, site_id, resps)
        j == r1.out.json
        zone == r2.out.val
    IN IF Failed(r1) THEN r1
       ELSE IF Failed(r2) THEN r2
       ELSE IF zone.t # "str" THEN Eval(r2.cache, r2.reqs, Raise("UnknownTimeZoneError"))
       ELSE IF ~ParseOk(j.startDate) \/ ~ParseOk(j.endDate)
       THEN Eval(r2.cache, r2.reqs, Raise("ParserError"))
       ELSE Eval(r2.cache, r2.reqs,
                 OkDates(<<ToZone(Parse(j.startDate), ZoneHours(zone.s)),
                           ToZone(Parse(j.endDate), ZoneHours(zone.s))>>))

\* get_energy, lines 123-133, and get_time_frame_energy, lines 135-145
DatedGet(st, self, site_id, leaf, start_date, end_date, time_unit, resps) ==
    HttpGet(st, SiteUrl(site_id, leaf),
            [api_key |-> token(self), startDate |-> start_date, endDate |-> end_date,
             timeUnit |-> time_unit], resps)

get_energy(st, self, site_id, start_date, end_date, time_unit, resps) ==
    DatedGet(st, self, site_id, "energy", start_date, end_date, time_unit, resps)

get_time_frame_energy(st, self, site_id, start_date, end_date, time_unit, resps) ==
    DatedGet(st, self, site_id, "timeFrameEnergy", start_date, end_date, time_unit, resps)

\* get_power, lines 147-156
get_power(st, self, site_id, start_time, end_time, resps) ==
    HttpGet(st, SiteUrl(site_id, "power"),
            [api_key |-> token(self), startTime |-> start_time, endTime |-> end_time], resps)

\* get_overview, lines 158-165
get_overview(st, self, site_id, resps) == SiteGet(st, self, site_id, "overview", resps)

\* get_power_details, lines 167-180
get_power_details(st, self, site_id, start_time, end_time, meters, resps) ==
    HttpGet(st, SiteUrl(site_id, "powerDetails"),
            WithOptional([api_key |-> token(self), startTime |-> start_time,
                          endTime |-> end_time], "meters", meters), resps)

\* get_energy_details, lines 182-198
get_energy_details(st, self, site_id, start_time, end_time, meters, time_unit, resps) ==
    HttpGet(st, SiteUrl(site_id, "energyDetails"),
            WithOptional([api_key |-> token(self), startTime |-> start_time,
                          endTime |-> end_time, timeUnit |-> time_unit], "meters", meters),
            resps)

\* the tz that get_timezone returned, as _fmt_date receives it
AsTz(zone) == IF zone.t = "str" THEN TzName(zone.s) ELSE TzNone

\* parse_energydetails(j) and df.tz_localize(tz), lines 205-206: a table made
\* of the body, localized to the zone
parse_energydetails(j, zone) == OkFrame(j, zone)

\* the data is fetched before the times are formatted
MutantFrame(st, self, site_id, start_time, end_time, meters, time_unit, resps) ==
    LET r1 == get_timezone(st, self, site_id, resps)
        zone == r1.out.val
        f1 == fmt_date(start_time, AsTz(zone))
        f2 == fmt_date(end_time, AsTz(zone))
        r2 == get_energy_details(Eval(r1.cache, r1.reqs, Pending), self, site_id,
                                 PyStr(f1.text), PyStr(f2.text), meters, time_unit, resps)
    IN IF Failed(r1) THEN r1
       ELSE IF Failed(r2) THEN r2
       ELSE IF f1.kind # "ok" THEN Eval(r2.cache, r2.reqs, Raise(f1.kind))
       ELSE IF f2.kind # "ok" THEN Eval(r2.cache, r2.reqs, Raise(f2.kind))
       ELSE Eval(r2.cache, r2.reqs, parse_energydetails(r2.out.json, zone))

\* get_energy_details_dataframe, lines 200-207
get_energy_details_dataframe(st, self, site_id, start_time, end_time, meters, time_unit, resps) ==
    LET r1 == get_timezone(st, self, site_id, resps)
        zone == r1.out.val
        f1 == fmt_date(start_time, AsTz(zone))
        f2 == fmt_date(end_time, AsTz(zone))
        r2 == get_energy_details(Eval(r1.cache, r1.reqs, Pending), self, site_id,
                                 PyStr(f1.text), PyStr(f2.text), meters, time_unit, resps)
    IN IF Failed(r1) THEN r1
       ELSE IF f1.kind # "ok" THEN Eval(r1.cache, r1.reqs, Raise(f1.kind))
       ELSE IF f2.kind # "ok" THEN Eval(r1.cache, r1.reqs, Raise(f2.kind))
       ELSE IF Failed(r2) THEN r2
       ELSE Eval(r2.cache, r2.reqs, parse_energydetails(r2.out.json, zone))

\* get_current_power_flow, lines 209-217
get_current_power_flow(st, self, site_id, resps) ==
    SiteGet(st, self, site_id, "currentPowerFlow", resps)

\* serials.join(','), line 228: a list has no join (AttributeError); a str joins
\* the characters of ',' with itself as the separator, which yields ','
JoinOk(serials) == serials.t = "str"
Join(serials) == T(",")

\* get_storage_data, lines 219-232
get_storage_data(st, self, site_id, start_time, end_time, serials, resps) ==
    LET base == [api_key |-> token(self), startTime |-> start_time, endTime |-> end_time]
    IN IF Truthy(serials) /\ ~JoinOk(serials)
       THEN Eval(st.cache, st.reqs, Raise("AttributeError"))
       ELSE HttpGet(st, SiteUrl(site_id, "storageData"),
                    IF Truthy(serials) THEN ("serials" :> Join(serials)) @@ base ELSE base,
                    resps)

\* get_inventory, lines 234-241
get_inventory(st, self, site_id, resps) == SiteGet(st, self, site_id, "inventory", resps)

-----------------------------------------------------------------------------
(* Inputs *)

Sites == {PyInt(1), PyInt(2)}

\* texts in the target format, as the callers of the plain endpoints pass them
StartText == PyStr(<<"5", " ", "0", "0">>)
EndText == PyStr(<<"6", " ", "0", "0">>)

TimeUnits == {T("DAY")}
Meters == {PyNone, PyList(<<>>), PyList(<<<<"PRODUCTION">>>>)}
Serials == {PyNone, PyList(<<<<"SN1">>>>), PyStr(<<"SN1">>)}

\* start_time and end_time of get_energy_details_dataframe: texts in the
\* target format, or one of the two a datetime that carries its zone
FrameTimes ==
    { <<DateText(<<"5", " ", "0", "0">>), DateText(<<"6", " ", "0", "0">>)>>,
      <<DateTime(5, 23, Offset(0)), DateText(<<"6", " ", "0", "0">>)>>,
      <<DateText(<<"5", " ", "0", "0">>), DateTime(6, 23, Offset(0))>> }

\* the ways get_list is called: its keyword arguments
ListCalls ==
    { <<>>,
      <<Kw("size", PyInt(100))>>,
      <<Kw("search_text", T("pv"))>>,
      <<Kw("sort_property", T("name"))>> }

\* the ways get_details and get_data_period are called: site_id by position or
\* by keyword
SiteCalls ==
    {[args |-> <<s>>, kwds |-> <<>>] : s \in Sites}
        \cup {[args |-> <<>>, kwds |-> <<Kw("site_id", s)>>] : s \in Sites}

One == {<<r>> : r \in Responses}
Two == {<<r1, r2>> : r1 \in Responses, r2 \in Responses}

NoCall == [op |-> "none", args |-> <<>>, kwds |-> <<>>]
UrlPending == [done |-> FALSE, text |-> <<>>]

EmptyCache == [m \in WrappedMethods |-> <<>>]

UrlIdle == parts = <<>> /\ part_list = <<>> /\ url = UrlPending
FmtIdle == date_obj = Date(0) /\ tz = TzNone /\ fmt_ret = FmtPending
ClientIdle ==
    /\ cache = EmptyCache
    /\ call = NoCall
    /\ stub = <<>>
    /\ reqs = <<>>
    /\ ret = Pending
    /\ evicted = {}
    /\ ncalls = 0

-----------------------------------------------------------------------------
(* The client: one action per method. Each invocation starts from the      *)
(* caches as they are, runs to its return or its exception, and leaves its *)
(* requests and outcome to be observed.                                    *)

MaxCalls == 2

Start == Eval(cache, <<>>, Pending)

Keys(entries) == {entries[k].key : k \in 1..Len(entries)}

\* the keys that c holds and d does not
Dropped(c, d) ==
    UNION {{<<m, key>> : key \in Keys(c[m]) \ Keys(d[m])} : m \in WrappedMethods}

Observe(op, args, kwds, resps, r) ==
    LET done == r
    IN /\ call' = [op |-> op, args |-> args, kwds |-> kwds]
       /\ stub' = resps
       /\ cache' = done.cache
       /\ reqs' = done.reqs
       /\ ret' = done.out
       /\ evicted' = Dropped(cache, done.cache)
    /\ UNCHANGED <<urlVars, fmtVars, clients, under_test>>

\* a method is invoked once the invocation before it has returned to its caller
Invoke(op, args, kwds, resps, r) ==
    /\ call = NoCall
    /\ ncalls < MaxCalls
    /\ ncalls' = ncalls + 1
    /\ Observe(op, args, kwds, resps, r)

\* the outcome is the caller's; the client keeps nothing of the invocation but
\* what the caches hold
Return ==
    /\ call # NoCall
    /\ call' = NoCall
    /\ stub' = <<>>
    /\ reqs' = <<>>
    /\ ret' = Pending
    /\ evicted' = {}
    /\ UNCHANGED <<clients, cache, ncalls, under_test, urlVars, fmtVars>>

CallGetList ==
    \E self \in clients, kwds \in ListCalls, resps \in One :
        Invoke("get_list", <<PyObj(self)>>, kwds, resps,
               get_list(Start, <<PyObj(self)>>, kwds, resps))

CallGetDetails ==
    \E self \in clients, c \in SiteCalls, resps \in One :
        Invoke("get_details", <<PyObj(self)>> \o c.args, c.kwds, resps,
               get_details(Start, <<PyObj(self)>> \o c.args, c.kwds, resps))

CallGetDataPeriod ==
    \E self \in clients, c \in SiteCalls, resps \in One :
        Invoke("get_data_period", <<PyObj(self)>> \o c.args, c.kwds, resps,
               get_data_period(Start, <<PyObj(self)>> \o c.args, c.kwds, resps))

CallGetDataPeriodParsed ==
    \E self \in clients, s \in Sites, resps \in Two :
        Invoke("get_data_period_parsed", <<PyObj(self), s>>, <<>>, resps,
               get_data_period_parsed(Start, self, s, resps))

CallGetEnergy ==
    \E self \in clients, s \in Sites, u \in TimeUnits, resps \in One :
        Invoke("get_energy", <<PyObj(self), s, StartText, EndText, u>>, <<>>, resps,
               get_energy(Start, self, s, StartText, EndText, u, resps))

CallGetTimeFrameEnergy ==
    \E self \in clients, s \in Sites, u \in TimeUnits, resps \in One :
        Invoke("get_time_frame_energy", <<PyObj(self), s, StartText, EndText, u>>, <<>>, resps,
               get_time_frame_energy(Start, self, s, StartText, EndText, u, resps))

CallGetPower ==
    \E self \in clients, s \in Sites, resps \in One :
        Invoke("get_power", <<PyObj(self), s, StartText, EndText>>, <<>>, resps,
               get_power(Start, self, s, StartText, EndText, resps))

CallGetOverview ==
    \E self \in clients, s \in Sites, resps \in One :
        Invoke("get_overview", <<PyObj(self), s>>, <<>>, resps,
               get_overview(Start, self, s, resps))

CallGetPowerDetails ==
    \E self \in clients, s \in Sites, m \in Meters, resps \in One :
        Invoke("get_power_details", <<PyObj(self), s, StartText, EndText, m>>, <<>>, resps,
               get_power_details(Start, self, s, StartText, EndText, m, resps))

CallGetEnergyDetails ==
    \E self \in clients, s \in Sites, m \in Meters, u \in TimeUnits, resps \in One :
        Invoke("get_energy_details", <<PyObj(self), s, StartText, EndText, m, u>>, <<>>, resps,
               get_energy_details(Start, self, s, StartText, EndText, m, u, resps))

CallGetEnergyDetailsDataframe ==
    \E self \in clients, s \in Sites, t \in FrameTimes, resps \in Two :
        Invoke("get_energy_details_dataframe", <<PyObj(self), s>>,
               <<Kw("start_time", t[1]), Kw("end_time", t[2])>>, resps,
               get_energy_details_dataframe(Start, self, s, t[1], t[2], PyNone, T("DAY"),
                                            resps))

CallGetCurrentPowerFlow ==
    \E self \in clients, s \in Sites, resps \in One :
        Invoke("get_current_power_flow", <<PyObj(self), s>>, <<>>, resps,
               get_current_power_flow(Start, self, s, resps))

CallGetStorageData ==
    \E self \in clients, s \in Sites, sn \in Serials, resps \in One :
        Invoke("get_storage_data", <<PyObj(self), s, StartText, EndText, sn>>, <<>>, resps,
               get_storage_data(Start, self, s, StartText, EndText, sn, resps))

CallGetInventory ==
    \E self \in clients, s \in Sites, resps \in One :
        Invoke("get_inventory", <<PyObj(self), s>>, <<>>, resps,
               get_inventory(Start, self, s, resps))

CallGetTimezone ==
    \E self \in clients, s \in Sites, resps \in One :
        Invoke("get_timezone", <<PyObj(self), s>>, <<>>, resps,
               get_timezone(Start, self, s, resps))

\* one client, constructed (lines 20-29) and not yet used
Init == UrlIdle /\ FmtIdle /\ ClientIdle /\ clients = {"A"} /\ under_test = "none"

Next ==
    \/ CallGetStorageData
    \/ CallGetList
    \/ CallGetDetails
    \/ CallGetDataPeriod
    \/ CallGetDataPeriodParsed
    \/ CallGetEnergy
    \/ CallGetTimeFrameEnergy
    \/ CallGetPower
    \/ CallGetOverview
    \/ CallGetPowerDetails
    \/ CallGetEnergyDetails
    \/ CallGetEnergyDetailsDataframe
    \/ CallGetCurrentPowerFlow
    \/ CallGetInventory
    \/ CallGetTimezone
    \/ Return

Spec == Init /\ [][Next]_vars

-----------------------------------------------------------------------------
(* A cache session: one wrapped method, called again and again by the two  *)
(* clients, and get_timezone, which calls get_details. The latest          *)
(* invocation stays observable until the next one replaces it, so that two *)
(* consecutive invocations can be compared.                                *)

Session(m, op, args, kwds, resps, r) ==
    /\ under_test = m
    /\ Observe(op, args, kwds, resps, r)
    /\ UNCHANGED ncalls

SessionGetList ==
    \E self \in clients, kwds \in ListCalls, resps \in One :
        Session("get_list", "get_list", <<PyObj(self)>>, kwds, resps,
                get_list(Start, <<PyObj(self)>>, kwds, resps))

SessionGetDetails ==
    \E self \in clients, c \in SiteCalls, resps \in One :
        Session("get_details", "get_details", <<PyObj(self)>> \o c.args, c.kwds, resps,
                get_details(Start, <<PyObj(self)>> \o c.args, c.kwds, resps))

SessionGetTimezone ==
    \E self \in clients, s \in Sites, resps \in One :
        Session("get_details", "get_timezone", <<PyObj(self), s>>, <<>>, resps,
                get_timezone(Start, self, s, resps))

SessionGetDataPeriod ==
    \E self \in clients, c \in SiteCalls, resps \in One :
        Session("get_data_period", "get_data_period", <<PyObj(self)>> \o c.args, c.kwds, resps,
                get_data_period(Start, <<PyObj(self)>> \o c.args, c.kwds, resps))

\* two clients, constructed and not yet used
InitLru == UrlIdle /\ FmtIdle /\ ClientIdle /\ clients = Clients /\ under_test \in WrappedMethods

NextLru ==
    \/ SessionGetList
    \/ SessionGetDetails
    \/ SessionGetTimezone
    \/ SessionGetDataPeriod

SpecLru == InitLru /\ [][NextLru]_vars

-----------------------------------------------------------------------------
(* urljoin on its own: the for loop of lines 292-298, one part a step, and *)
(* the join and return of lines 300-301                                    *)

MaxParts == 2
MaxSegLen == 3

RECURSIVE TextsUpTo(_)
TextsUpTo(n) ==
    IF n = 0 THEN {<<>>}
    ELSE LET shorter == TextsUpTo(n - 1)
         IN shorter \cup {Append(t, c) : t \in shorter, c \in {"a", "/"}}

Segments == {PyStr(t) : t \in TextsUpTo(MaxSegLen)} \cup {PyInt(12)}

RECURSIVE SeqsUpTo(_, _)
SeqsUpTo(S, n) ==
    IF n = 0 THEN {<<>>}
    ELSE LET shorter == SeqsUpTo(S, n - 1)
         IN shorter \cup {Append(q, x) : q \in shorter, x \in S}

InitUrl ==
    /\ parts \in SeqsUpTo(Segments, MaxParts)
    /\ part_list = <<>>
    /\ url = UrlPending
    /\ FmtIdle /\ ClientIdle /\ clients = {} /\ under_test = "none"

UrlLoop ==
    /\ ~url.done
    /\ Len(part_list) < Len(parts)
    /\ part_list' = Append(part_list, ProcessPart(parts[Len(part_list) + 1]))
    /\ UNCHANGED <<parts, url, fmtVars, clientVars>>

UrlReturn ==
    /\ ~url.done
    /\ Len(part_list) = Len(parts)
    /\ url' = [done |-> TRUE, text |-> JoinSlash(part_list)]
    /\ UNCHANGED <<parts, part_list, fmtVars, clientVars>>

NextUrl == UrlLoop \/ UrlReturn

SpecUrl == InitUrl /\ [][NextUrl]_vars

-----------------------------------------------------------------------------
(* _fmt_date on its own *)

Days == {5, 6}
Hours == {0, 23}
ZoneOffsets == {0, 1, 2}

IsoText(day, hour) == ItoA(day) \o <<"T">> \o TwoDigits(hour)

DateInputs ==
    UNION { { DateText(Strftime(DateTime(d, h, NoOffset))),
              DateText(IsoText(d, h)),
              DateText(IsoText(d, h) \o <<"Z">>),
              DateTime(d, h, NoOffset) }
            \cup {DateText(IsoText(d, h) \o <<"+", Digit(o)>>) : o \in ZoneOffsets}
            \cup {DateTime(d, h, Offset(o)) : o \in ZoneOffsets}
          : d \in Days, h \in Hours }
        \cup {Date(d) : d \in Days}
        \cup {DateText(ItoA(d)) : d \in Days}
        \cup {DateText(<<"soon">>)}

\* tz: absent, a zone name as get_energy_details_dataframe passes it (lines
\* 202-203), or a tzinfo object
TzInputs ==
    {TzNone, TzName(<<"Europe/Brussels">>)} \cup {TzInfo(o) : o \in ZoneOffsets}

InitFmt ==
    /\ date_obj \in DateInputs
    /\ tz \in TzInputs
    /\ fmt_ret = FmtPending
    /\ UrlIdle /\ ClientIdle /\ clients = {} /\ under_test = "none"

FmtDate ==
    /\ fmt_ret = FmtPending
    /\ fmt_ret' = fmt_date(date_obj, tz)
    /\ UNCHANGED <<date_obj, tz, urlVars, clientVars>>

NextFmt == FmtDate

SpecFmt == InitFmt /\ [][NextFmt]_vars

-----------------------------------------------------------------------------
(* Properties of the memoizer, checked under SpecLru *)

\* the key a call is stored under when arguments are kept as they were passed
KeyAsPassed(c) == [args |-> c.args, kwds |-> c.kwds]

\* the values a call's parameters take once the defaults are filled in
Resolved(c) ==
    IF c.op = "get_list"
    THEN <<c.args[1],
           Bound(c.args, c.kwds, 1, "size", PyInt(100)),
           Bound(c.args, c.kwds, 2, "start_index", PyInt(0)),
           Bound(c.args, c.kwds, 3, "search_text", PyStr(<<>>)),
           Bound(c.args, c.kwds, 4, "sort_property", PyStr(<<>>)),
           Bound(c.args, c.kwds, 5, "sort_order", T("ASC")),
           Bound(c.args, c.kwds, 6, "status", T("Active,Pending"))>>
    ELSE <<c.args[1], Bound(c.args, c.kwds, 1, "site_id", PyNone)>>

SameCall == call'.op = call.op /\ call'.args = call.args /\ call'.kwds = call.kwds

\* C1: of two consecutive calls of a wrapped method with identical arguments,
\* the first of which returned a result, the second issues no GET and returns
\* that result; a call whose arguments are not in the cache issues exactly one
\* GET.
C1_Memo ==
    [][ /\ (call.op \in WrappedMethods /\ SameCall /\ ret.kind = "ok")
              => (reqs' = <<>> /\ ret' = ret)
        /\ (call'.op \in WrappedMethods /\ KeyAsPassed(call') \notin Keys(cache[call'.op]))
              => Len(reqs') = 1 ]_vars

\* a wrapped call has been answered from the cache
C1_Witness ==
    /\ call.op \in WrappedMethods
    /\ reqs = <<>>
    /\ ret.kind = "ok"
    /\ cache[call.op] # <<>>
    /\ cache[call.op][Len(cache[call.op])] = [key |-> KeyAsPassed(call), value |-> ret.json]

\* the method whose cache an invocation goes through, and the key it uses
CacheOf(c) == IF c.op = "get_timezone" THEN "get_details" ELSE c.op
KeyUsed(c) ==
    IF c.op = "get_timezone"
    THEN [args |-> <<c.args[1]>>, kwds |-> <<Kw("site_id", c.args[2])>>]
    ELSE KeyAsPassed(c)
ThroughCache(c) == c.op \in WrappedMethods \cup {"get_timezone"}

\* entries with the entry of key k, if any, moved to the end
Refreshed(entries, k) ==
    LET rest == SelectSeq(entries, LAMBDA e : e.key # k)
        hit == SelectSeq(entries, LAMBDA e : e.key = k)
    IN rest \o hit

Front(q) == SubSeq(q, 1, Len(q) - 1)

\* C6: a cache never holds more than maxsize entries, nor one key twice; a call
\* whose key is cached issues no GET, returns the stored body, and makes its
\* entry the most recently used; a miss that returns stores its result last
\* and, when the cache was full, drops exactly the least recently used entry;
\* a miss that fails, and a call of another method, leave the cache as it was.
C6_Lru ==
    /\ [](\A m \in WrappedMethods :
            /\ Len(cache[m]) <= maxsize
            /\ \A i, j \in 1..Len(cache[m]) : cache[m][i].key = cache[m][j].key => i = j)
    /\ [][ \A m \in WrappedMethods :
             IF ThroughCache(call') /\ CacheOf(call') = m
             THEN LET k == KeyUsed(call')
                  IN IF k \in Keys(cache[m])
                     THEN /\ reqs' = <<>>
                          /\ cache'[m] = Refreshed(cache[m], k)
                          /\ cache'[m][Len(cache'[m])].value \in {ret'.json} \cup
                                {b \in Bodies : call'.op = "get_timezone" /\ b.timeZone = ret'.val}
                     ELSE IF ret'.kind = "ok"
                     THEN /\ Len(reqs') = 1
                          /\ cache'[m] # <<>>
                          /\ cache'[m][Len(cache'[m])].key = k
                          /\ Front(cache'[m]) =
                                IF Len(cache[m]) = maxsize THEN Tail(cache[m]) ELSE cache[m]
                     ELSE cache'[m] = cache[m]
             ELSE cache'[m] = cache[m] ]_vars

\* a full cache has dropped its least recently used entry for a new one
C6_Witness ==
    /\ under_test \in WrappedMethods
    /\ evicted # {}
    /\ Len(cache[under_test]) = maxsize
    /\ Len(reqs) = 1

\* C7 as stated: a call made through one client never evicts an entry that was
\* cached through another.
C7_Original == \A e \in evicted : e[2].args[1] = call.args[1]

Owned(entries, self) ==
    SelectSeq(entries, LAMBDA e : Len(e.key.args) >= 1 /\ e.key.args[1] = self)

\* C7 amended: each wrapped method has one cache, shared by all clients and
\* keyed by the instance and the arguments. A call through one client is never
\* answered from another client's entry and leaves the caches of the other
\* methods alone; but all clients' entries together are bounded by maxsize, and
\* a miss on the full cache evicts its least recently used entry whichever
\* client stored it: another client's entries are left as they were or lose
\* exactly that head entry.
C7_Amended ==
    /\ [](\A m \in WrappedMethods : Len(cache[m]) <= maxsize)
    /\ [][ ThroughCache(call') =>
             LET m == CacheOf(call')
                 self == call'.args[1]
             IN /\ \A n \in WrappedMethods \ {m} : cache'[n] = cache[n]
                /\ reqs' = <<>> =>
                      \E k \in 1..Len(cache[m]) :
                          /\ Len(cache[m][k].key.args) >= 1
                          /\ cache[m][k].key.args[1] = self
                          /\ cache[m][k].key = KeyUsed(call')
                /\ \A other \in {PyObj(c) : c \in clients} \ {self} :
                      \/ Owned(cache'[m], other) = Owned(cache[m], other)
                      \/ /\ Len(cache[m]) = maxsize
                         /\ Len(reqs') = 1
                         /\ cache[m][1].key.args[1] = other
                         /\ Owned(cache'[m], other) = Tail(Owned(cache[m], other)) ]_vars

\* a call through one client has evicted an entry cached through the other
C7_Witness ==
    /\ ThroughCache(call)
    /\ \E e \in evicted : e[2].args[1] # call.args[1]

\* C8 as stated: after a call that returned, a call of the same method whose
\* resolved argument values are equal issues no GET, whatever the form of the call.
C8_Original ==
    [][ (call.op \in WrappedMethods /\ call'.op = call.op /\ ret.kind = "ok"
            /\ Resolved(call') = Resolved(call))
          => reqs' = <<>> ]_vars

\* C8 amended: the key is the arguments as they were passed (the positional
\* values and the keyword names and values), defaults not filled in. A call is
\* answered from the cache exactly when an entry was stored under the same
\* arguments in the same form; a call with equal resolved values in another
\* form that is not cached issues a GET. get_timezone uses the entry of
\* get_details(site_id=...).
C8_Amended ==
    [][ ThroughCache(call') =>
          /\ reqs' = <<>> <=>
                \E k \in 1..Len(cache[CacheOf(call')]) :
                    IF call'.op = "get_timezone"
                    THEN /\ cache[CacheOf(call')][k].key.args = <<call'.args[1]>>
                         /\ cache[CacheOf(call')][k].key.kwds = <<Kw("site_id", call'.args[2])>>
                    ELSE /\ cache[CacheOf(call')][k].key.args = call'.args
                         /\ cache[CacheOf(call')][k].key.kwds = call'.kwds
          /\ (reqs' # <<>> /\ ret'.kind = "ok") =>
                \E k \in 1..Len(cache'[CacheOf(call')]) :
                    cache'[CacheOf(call')][k].key = KeyUsed(call') ]_vars

\* get_list(size=100) went to the network although get_list() of the same
\* client, with the same resolved values, is cached
C8_Witness ==
    /\ call.op = "get_list"
    /\ call.kwds = <<Kw("size", PyInt(100))>>
    /\ Len(reqs) = 1
    /\ \E k \in 1..Len(cache["get_list"]) :
          cache["get_list"][k].key = [args |-> call.args, kwds |-> <<>>]

-----------------------------------------------------------------------------
(* Properties of the client, checked under Spec *)

\* the operations that return the decoded body of their one request
EndpointOps ==
    {"get_list", "get_details", "get_data_period", "get_energy", "get_time_frame_energy",
     "get_power", "get_overview", "get_power_details", "get_energy_details",
     "get_current_power_flow", "get_storage_data", "get_inventory"}

\* C2: an endpoint operation returns the body the transport answers with
\* status 200, and fails with an HTTP error, returning no JSON, when the
\* transport answers 404, whatever was called before.
C2_Claim ==
    call.op \in EndpointOps =>
        /\ stub[1].status = 200 => ret = Ok(stub[1].body)
        /\ stub[1].status = 404 => (ret.kind = "HTTPError" /\ ret.json = NoJson)

\* the optional parameters of the latest call: the name in the query and the
\* value the caller gave
OptionalParams ==
    CASE call.op = "get_list" ->
            { <<"searchText", Bound(call.args, call.kwds, 3, "search_text", PyStr(<<>>))>>,
              <<"sortProperty", Bound(call.args, call.kwds, 4, "sort_property", PyStr(<<>>))>> }
      [] call.op \in {"get_power_details", "get_energy_details"} -> {<<"meters", call.args[5]>>}
      [] call.op = "get_storage_data" -> {<<"serials", call.args[5]>>}
      [] OTHER -> {}

\* C3: an optional parameter that is not supplied has no entry in the query of
\* the outgoing request; one that is supplied has an entry whose value is the
\* supplied value (and the request is sent, unless a cache answered).
C3_Claim ==
    \A o \in OptionalParams :
        /\ \A k \in 1..Len(reqs) :
              IF Truthy(o[2])
              THEN o[1] \in DOMAIN reqs[k].params /\ reqs[k].params[o[1]] = o[2]
              ELSE o[1] \notin DOMAIN reqs[k].params
        /\ call.op \notin WrappedMethods => Len(reqs) = 1

Composite == {"get_data_period_parsed", "get_energy_details_dataframe"}

\* C9 as stated: no invocation issues more than one GET.
C9_Original == Len(reqs) <= 1

\* C9 amended: an endpoint operation and get_timezone issue at most one GET;
\* get_data_period_parsed and get_energy_details_dataframe issue at most two,
\* to different URLs (the lookups they make through the caches, each skipped
\* on a hit, and the energy details request). No GET is repeated, and a GET
\* that fails is the last of its invocation, which fails with the HTTP error.
C9_Amended ==
    /\ Len(reqs) <= IF call.op \in Composite THEN 2 ELSE 1
    /\ \A i, j \in 1..Len(reqs) : reqs[i].url = reqs[j].url => i = j
    /\ \A i \in 1..Len(reqs) :
          reqs[i].status >= 400 => (i = Len(reqs) /\ ret.kind = "HTTPError" /\ ret.json = NoJson)
    /\ ret.kind = "HTTPError" => (reqs # <<>> /\ reqs[Len(reqs)].status >= 400)

\* get_data_period_parsed issued two GETs, the second of which failed
C9_Witness ==
    /\ call.op = "get_data_period_parsed"
    /\ Len(reqs) = 2
    /\ reqs[2].status = 404
    /\ ret.kind = "HTTPError"

FrameFailed == call.op = "get_energy_details_dataframe" /\ ret.kind = "ValueError"

\* C10 as stated: an invocation of get_energy_details_dataframe that ends in
\* the formatter's invalid-argument failure has issued no GET.
C10_Original == FrameFailed => reqs = <<>>

DetailsUrl(site_id) ==
    <<"https:", "/", "/", "monitoringapi.solaredge.com", "/", "site", "/">>
        \o ItoA(site_id.i) \o <<"/", "details">>

\* C10 amended: such an invocation has issued no energy details request; the
\* one GET it may have issued is the site details lookup, answered with status
\* 200, and it issued that one exactly when get_details(site_id=...) of the
\* client was not cached.
C10_Amended ==
    /\ [](FrameFailed =>
            /\ Len(reqs) <= 1
            /\ \A k \in 1..Len(reqs) :
                  /\ reqs[k].url = DetailsUrl(call.args[2])
                  /\ reqs[k].status = 200
                  /\ DOMAIN reqs[k].params = {"api_key"})
    /\ [][ (call'.op = "get_energy_details_dataframe" /\ ret'.kind = "ValueError") =>
             (reqs' = <<>> <=>
                [args |-> <<call'.args[1]>>, kwds |-> <<Kw("site_id", call'.args[2])>>]
                    \in Keys(cache["get_details"])) ]_vars

\* the failure came after the site details were fetched
C10_Witness == FrameFailed /\ Len(reqs) = 1

-----------------------------------------------------------------------------
(* Properties of _fmt_date, checked under SpecFmt *)

\* the value carries its zone: a datetime with a tzinfo, or text that is not
\* in the target format and parses to one
CarriesZone(obj) ==
    IF obj.t = "str"
    THEN ~StrptimeOk(obj.text) /\ ParseOk(obj.text) /\ IsAware(Parse(obj.text))
    ELSE IsAware(obj)

Structured(obj) == IF obj.t = "str" THEN Parse(obj.text) ELSE obj

TargetHours(zone) == IF zone.t = "tzinfo" THEN zone.hours ELSE ZoneHours(zone.name)

\* C4: for a value that carries its zone, _fmt_date fails with the
\* invalid-argument error when no target zone is given, and otherwise returns
\* the value's wall-clock time in the target zone, in the target format.
C4_Claim ==
    (fmt_ret # FmtPending /\ CarriesZone(date_obj)) =>
        IF tz = TzNone
        THEN fmt_ret = FmtRaise("ValueError")
        ELSE fmt_ret = FmtOk(Strftime(AsTimezone(Structured(date_obj), TargetHours(tz))))

-----------------------------------------------------------------------------
(* Properties of urljoin, checked under SpecUrl *)

RECURSIVE TrailingSlashes(_)
TrailingSlashes(p) ==
    IF p # <<>> /\ p[Len(p)] = "/" THEN 1 + TrailingSlashes(SubSeq(p, 1, Len(p) - 1)) ELSE 0

RECURSIVE LeadingSlashes(_)
LeadingSlashes(p) ==
    IF p # <<>> /\ p[1] = "/" THEN 1 + LeadingSlashes(Tail(p)) ELSE 0

\* where the k-th processed segment starts in the joined text, less one
RECURSIVE StartOf(_, _)
StartOf(list, k) == IF k = 1 THEN 0 ELSE StartOf(list, k - 1) + Len(list[k - 1]) + 1

\* text is the processed segments in order, one slash between two neighbours
JoinedBySlash(text, list) ==
    /\ Len(text) = IF list = <<>> THEN 0 ELSE StartOf(list, Len(list)) + Len(list[Len(list)])
    /\ \A k \in 1..Len(list) :
          /\ SubSeq(text, StartOf(list, k) + 1, StartOf(list, k) + Len(list[k])) = list[k]
          /\ k > 1 => text[StartOf(list, k)] = "/"

\* C5 as stated: a segment that ends in '//' contributes its text with exactly
\* one trailing slash; any other segment contributes its text stripped of
\* leading and trailing slashes; the contributions are joined by single slashes.
C5_Original ==
    /\ \A k \in 1..Len(part_list) :
          LET p == Str(parts[k])
              q == part_list[k]
          IN IF TrailingSlashes(p) >= 2
             THEN /\ TrailingSlashes(q) = 1
                  /\ SubSeq(q, 1, Len(q) - 1) = SubSeq(p, 1, Len(p) - TrailingSlashes(p))
             ELSE /\ TrailingSlashes(q) = 0 /\ LeadingSlashes(q) = 0
                  /\ q = SubSeq(p, LeadingSlashes(p) + 1, Len(p) - TrailingSlashes(p))
    /\ url.done => JoinedBySlash(url.text, part_list)

\* C5 amended: a segment that ends in '//' contributes its text less its last
\* slash, so one trailing slash when it ends in exactly two slashes and n - 1
\* when it ends in n, its leading slashes kept; any other segment contributes
\* its text stripped of leading and trailing slashes; the contributions are
\* joined by single slashes.
C5_Amended ==
    /\ \A k \in 1..Len(part_list) :
          LET p == Str(parts[k])
              q == part_list[k]
          IN IF TrailingSlashes(p) >= 2
             THEN /\ TrailingSlashes(q) = TrailingSlashes(p) - 1
                  /\ q = SubSeq(p, 1, Len(p) - 1)
                  /\ TrailingSlashes(p) = 2 => TrailingSlashes(q) = 1
             ELSE /\ TrailingSlashes(q) = 0 /\ LeadingSlashes(q) = 0
                  /\ q = SubSeq(p, LeadingSlashes(p) + 1, Len(p) - TrailingSlashes(p))
    /\ url.done => JoinedBySlash(url.text, part_list)

\* a segment of three slashes or more has been joined, two of them kept
C5_Witness ==
    /\ url.done
    /\ \E k \in 1..Len(parts) :
          TrailingSlashes(Str(parts[k])) >= 3 /\ TrailingSlashes(part_list[k]) >= 2

====
